---- MODULE Spec2Model ----
(***************************************************************************)
(* Model of kleinanzeigen_scraper/scraper.py: the link extractor           *)
(* (parse_listing_links), the count hint (extract_total_count) and the     *)
(* pagination controller (scrape_seller_listings).                         *)
(*                                                                         *)
(* Strings are sequences of tokens.  A token is a piece of text that the   *)
(* code never looks inside: "/" is the path separator, ORIGIN is the text  *)
(* "https://www.kleinanzeigen.de", the others are path segments.           *)
(***************************************************************************)
EXTENDS Integers, Sequences, FiniteSets, TLC

\* ------------------------------------------------------------------ bounds
\* anchors of one document given to parse_listing_links on its own
MaxAnchors == 4
\* anchors of one page body served to scrape_seller_listings
MaxPageAnchors == 2

\* ------------------------------------------------------- program constants
ORIGIN == "https://www.kleinanzeigen.de"
MARKER == <<"/", "s-anzeige", "/">>
PageSize == 25
RegexMaxDigits == 5
None == -1

\* ------------------------------------------------------------ sequences
Range(s) == {s[i] : i \in 1..Len(s)}

NoDup(s) == \A i, j \in 1..Len(s) : s[i] = s[j] => i = j

IsPrefix(s, t) == Len(s) <= Len(t) /\ SubSeq(t, 1, Len(s)) = s

FirstIdx(s, x) == CHOOSE i \in 1..Len(s) : s[i] = x /\ \A j \in 1..(i - 1) : s[j] # x

SeqsUpTo(S, n) == UNION {[1..k -> S] : k \in 0..n}

\* ------------------------------------------------------------- strings
\* Python: sub in s
Contains(s, sub) ==
    \E i \in 1..(Len(s) - Len(sub) + 1) : SubSeq(s, i, i + Len(sub) - 1) = sub

\* Python: href.startswith("http"); of the tokens only ORIGIN begins so
StartsWithHttp(s) == Len(s) > 0 /\ s[1] = ORIGIN

\* Python: path.split('/'), a sequence of segments, each a token sequence.
\* at[i] is the scan after i tokens: the segments closed so far and the open one.
Split(s) ==
    LET at[i \in 0..Len(s)] ==
            IF i = 0 THEN [closed |-> <<>>, cur |-> <<>>]
            ELSE LET prev == at[i - 1]
                 IN  IF s[i] = "/"
                     THEN [closed |-> Append(prev.closed, prev.cur), cur |-> <<>>]
                     ELSE [closed |-> prev.closed, cur |-> Append(prev.cur, s[i])]
    IN  Append(at[Len(s)].closed, at[Len(s)].cur)

\* Python: '/'.join(segments)
Join(segs) ==
    LET upto[i \in 0..Len(segs)] ==
            IF i = 0 THEN <<>>
            ELSE IF i = 1 THEN segs[1]
            ELSE upto[i - 1] \o <<"/">> \o segs[i]
    IN  upto[Len(segs)]

\* Python: segments[1:-1] = filter(None, segments[1:-1])
FilterInner(segs) ==
    IF Len(segs) < 3 THEN segs
    ELSE <<segs[1]>>
         \o SelectSeq(SubSeq(segs, 2, Len(segs) - 1), LAMBDA g : g # <<>>)
         \o <<segs[Len(segs)]>>

\* urljoin's loop over the segments: '..' pops, '.' is skipped.
\* resolved_path[i] is the list after i segments.
RemoveDots(segs) ==
    LET resolved_path[i \in 0..Len(segs)] ==
            IF i = 0 THEN <<>>
            ELSE LET prev == resolved_path[i - 1]
                 IN  IF segs[i] = <<"..">>
                     THEN IF Len(prev) = 0 THEN prev
                          ELSE SubSeq(prev, 1, Len(prev) - 1)
                     ELSE IF segs[i] = <<".">> THEN prev
                     ELSE Append(prev, segs[i])
    IN  resolved_path[Len(segs)]

\* urljoin(ORIGIN, path) for a reference that is a path only (no scheme,
\* host, query or fragment).  The base has an empty path.
UrlJoin(path) ==
    LET segments == IF path[1] = "/" THEN Split(path)
                    ELSE FilterInner(<<<<>>>> \o Split(path))
        resolved == RemoveDots(segments)
        withDir  == IF segments[Len(segments)] \in {<<".">>, <<"..">>}
                    THEN Append(resolved, <<>>) ELSE resolved
        joined   == IF Join(withDir) = <<>> THEN <<"/">> ELSE Join(withDir)
        rooted   == IF joined[1] # "/" THEN <<"/">> \o joined ELSE joined
    IN  <<ORIGIN>> \o rooted

\* ------------------------------------------------------ the inputs drawn
\* An anchor element: has = FALSE is <a> without an href attribute.
A_rel  == <<"/", "s-anzeige", "/", "a">>
A_abs  == <<ORIGIN, "/", "s-anzeige", "/", "a">>
B_rel  == <<"/", "s-anzeige", "/", "b">>
C_rel  == <<"/", "s-anzeige", "/", "c">>
DotDot == <<"/", "s-anzeige", "/", "..", "/", "a">>
Other  == <<"/", "pro", "/", "a">>

Hrefs == {A_rel, A_abs, B_rel, C_rel, DotDot, Other, <<>>}

Anchors == {[has |-> TRUE, href |-> h] : h \in Hrefs}
           \cup {[has |-> FALSE, href |-> <<>>]}

\* the anchors of the page bodies the server answers with
PageAnchors == {[has |-> TRUE, href |-> h] : h \in {A_rel, A_abs, B_rel, C_rel, Other, <<>>}}

\* the digit runs in front of "Anzeigen online": 0, 00, 3, 30, 51, 1000051
DigitRuns == {<<0>>, <<0, 0>>, <<3>>, <<3, 0>>, <<5, 1>>, <<1, 0, 0, 0, 0, 5, 1>>}

\* The page text around the count phrase: phrase = TRUE is
\* "<digits> Anzeigen online" somewhere in the text.
Texts == {[phrase |-> FALSE, digits |-> <<>>]}
         \cup {[phrase |-> TRUE, digits |-> d] : d \in DigitRuns \cup {<<>>}}

\* HTTP status codes a response can carry
Statuses == {200, 203, 304, 404}

\* ------------------------------------------------- parse_listing_links
Qualifies(a) == a.has /\ a.href # <<>> /\ Contains(a.href, MARKER)

Resolve(href) == IF StartsWithHttp(href) THEN href ELSE UrlJoin(href)

\* variant: no test against seen
ParseLoopNoSeen(doc) ==
    LET after[i \in 0..Len(doc)] ==
            IF i = 0 THEN [links |-> <<>>, seen |-> {}]
            ELSE LET prev == after[i - 1]
                     full_url == Resolve(doc[i].href)
                 IN  IF ~Qualifies(doc[i]) THEN prev
                     ELSE [links |-> Append(prev.links, full_url),
                           seen  |-> prev.seen \cup {full_url}]
    IN  after[Len(doc)]

\* the for loop: after[i] is (links, seen) once i anchors have been visited
ParseLoop(doc) ==
    LET after[i \in 0..Len(doc)] ==
            IF i = 0 THEN [links |-> <<>>, seen |-> {}]
            ELSE LET prev == after[i - 1]
                     full_url == Resolve(doc[i].href)
                 IN  IF ~Qualifies(doc[i]) THEN prev
                     ELSE IF full_url \notin prev.seen
                          THEN [links |-> Append(prev.links, full_url),
                                seen  |-> prev.seen \cup {full_url}]
                          ELSE prev
    IN  after[Len(doc)]

parse_listing_links(doc) == ParseLoop(doc).links

\* -------------------------------------------------- extract_total_count
\* Python: int(text) of a digit string
DigitsToInt(d) ==
    LET val[i \in 0..Len(d)] == IF i = 0 THEN 0 ELSE 10 * val[i - 1] + d[i]
    IN  val[Len(d)]

\* (\d{1,5})\s+Anzeigen\s+online: the group is the last 1..5 digits of the
\* digit run in front of the phrase
RegexGroup(d) ==
    IF Len(d) <= RegexMaxDigits THEN d
    ELSE SubSeq(d, Len(d) - RegexMaxDigits + 1, Len(d))

extract_total_count(text) ==
    IF text.phrase /\ Len(text.digits) >= 1
    THEN DigitsToInt(RegexGroup(text.digits))
    ELSE None

\* ----------------------------------------------- scrape_seller_listings
\* Python truthiness of an int | None
Truthy(x) == x # None /\ x # 0

\* math.ceil(total_ads / 25)
Ceil(total) == (total + PageSize - 1) \div PageSize

NumPages(total) == IF Truthy(total) THEN Ceil(total) ELSE None

\* variant: only 5xx raises
RaisesOnlyServerError(s) == 500 <= s /\ s < 600

\* Response.raise_for_status(): raises for 4xx and 5xx
RaisesForStatus(s) == 400 <= s /\ s < 600

\* variant: only an error status (4xx, 5xx) breaks
StatusIsError(s) == s >= 400

\* r.status_code != 200
StatusNotOk(s) == s # 200

\* variant: no membership test, every link of the page counts as new
NewLinksUnfiltered(lnks, all) == lnks

\* [url for url in links if url not in all_links]
NewLinks(lnks, all) == SelectSeq(lnks, LAMBDA u : u \notin Range(all))

\* variant: the new links go in front
ExtendFront(all, new) == new \o all

\* variant: the last new link is dropped
ExtendAllButLast(all, new) == all \o SubSeq(new, 1, Len(new) - 1)

\* all_links.extend(new_links)
Extend(all, new) == all \o new

PageLimitReached(np, p) == Truthy(np) /\ p > np

\* ---------------------------------------------------------------- state
VARIABLES
    pc,         \* "start", "loop", "done" (returned) or "failed" (raised)
    page,       \* the loop's page counter
    all_links,  \* the accumulated collection
    total_ads,  \* extract_total_count(first_html)
    num_pages,  \* the expected page count, or None
    requested,  \* page numbers session.get was called for
    hist,       \* hist[n]: status of the response for page n and the links
                \* parse_listing_links yields for its body (ConnErr: none came)
    stop,       \* which break ended the loop
    result,     \* the returned list
    html,       \* a document handed to parse_listing_links on its own
    links,      \* what it returned
    parsed      \* whether it has returned

vars == <<pc, page, all_links, total_ads, num_pages, requested, hist, stop,
          result, html, links, parsed>>

scraperVars == <<pc, page, all_links, total_ads, num_pages, requested, hist,
                 stop, result>>

parseVars == <<html, links, parsed>>

\* status recorded when session.get raised instead of returning a response
ConnErr == 0

PageBodies == SeqsUpTo(PageAnchors, MaxPageAnchors)

\* parse_listing_links(r.text) over the bodies a response can carry
PageLinks == {parse_listing_links(body) : body \in PageBodies}

Htmls == SeqsUpTo(Anchors, MaxAnchors)

ScraperInit ==
    /\ pc = "start"
    /\ page = 1
    /\ all_links = <<>>
    /\ total_ads = None
    /\ num_pages = None
    /\ requested = {}
    /\ hist = <<>>
    /\ stop = "none"
    /\ result = <<>>

Init ==
    /\ ScraperInit
    /\ html = <<>>
    /\ links = <<>>
    /\ parsed = FALSE

\* --------------------------------------------------------- page 1
\* session.get raises, or raise_for_status() raises: the exception leaves
\* scrape_seller_listings
FirstFails ==
    /\ pc = "start"
    /\ \E s \in Statuses \cup {ConnErr}, body_links \in PageLinks :
          /\ s = ConnErr \/ RaisesForStatus(s)
          /\ hist' = <<[status |-> s,
                        links |-> IF s = ConnErr THEN <<>> ELSE body_links]>>
    /\ requested' = {1}
    /\ pc' = "failed"
    /\ UNCHANGED <<page, all_links, total_ads, num_pages, stop, result>>
    /\ UNCHANGED parseVars

FirstPage ==
    /\ pc = "start"
    /\ \E s \in Statuses, first_links \in PageLinks, text \in Texts :
          /\ ~RaisesForStatus(s)
          /\ all_links' = first_links
          /\ total_ads' = extract_total_count(text)
          /\ num_pages' = NumPages(extract_total_count(text))
          /\ hist' = <<[status |-> s, links |-> first_links]>>
    /\ requested' = {1}
    /\ page' = 2
    /\ pc' = "loop"
    /\ UNCHANGED <<stop, result>>
    /\ UNCHANGED parseVars

\* --------------------------------------------------------- the loop
\* variant: continue instead of break, the loop spins at the page limit
StopPageLimitContinue ==
    /\ pc = "loop"
    /\ PageLimitReached(num_pages, page)
    /\ UNCHANGED vars

\* if num_pages and page > num_pages: break
StopPageLimit ==
    /\ pc = "loop"
    /\ PageLimitReached(num_pages, page)
    /\ pc' = "done"
    /\ stop' = "limit"
    /\ result' = all_links
    /\ UNCHANGED <<page, all_links, total_ads, num_pages, requested, hist>>
    /\ UNCHANGED parseVars

\* session.get raises for a page of the loop
LoopGetRaises ==
    /\ pc = "loop"
    /\ ~PageLimitReached(num_pages, page)
    /\ requested' = requested \cup {page}
    /\ hist' = Append(hist, [status |-> ConnErr, links |-> <<>>])
    /\ pc' = "failed"
    /\ UNCHANGED <<page, all_links, total_ads, num_pages, stop, result>>
    /\ UNCHANGED parseVars

\* if r.status_code != 200: break
StopStatus ==
    /\ pc = "loop"
    /\ ~PageLimitReached(num_pages, page)
    /\ \E s \in Statuses, body_links \in PageLinks :
          /\ StatusNotOk(s)
          /\ hist' = Append(hist, [status |-> s, links |-> body_links])
    /\ requested' = requested \cup {page}
    /\ pc' = "done"
    /\ stop' = "status"
    /\ result' = all_links
    /\ UNCHANGED <<page, all_links, total_ads, num_pages>>
    /\ UNCHANGED parseVars

\* if not new_links: break
StopNoNew ==
    /\ pc = "loop"
    /\ ~PageLimitReached(num_pages, page)
    /\ \E s \in Statuses, page_links \in PageLinks :
          /\ ~StatusNotOk(s)
          /\ NewLinks(page_links, all_links) = <<>>
          /\ hist' = Append(hist, [status |-> s, links |-> page_links])
    /\ requested' = requested \cup {page}
    /\ pc' = "done"
    /\ stop' = "no_new"
    /\ result' = all_links
    /\ UNCHANGED <<page, all_links, total_ads, num_pages>>
    /\ UNCHANGED parseVars

\* all_links.extend(new_links); page += 1
NextPage ==
    /\ pc = "loop"
    /\ ~PageLimitReached(num_pages, page)
    /\ \E s \in Statuses, page_links \in PageLinks :
          /\ ~StatusNotOk(s)
          /\ NewLinks(page_links, all_links) # <<>>
          /\ all_links' = Extend(all_links, NewLinks(page_links, all_links))
          /\ hist' = Append(hist, [status |-> s, links |-> page_links])
    /\ requested' = requested \cup {page}
    /\ page' = page + 1
    /\ UNCHANGED <<pc, total_ads, num_pages, stop, result>>
    /\ UNCHANGED parseVars

Next ==
    \/ FirstFails
    \/ FirstPage
    \/ StopPageLimit
    \/ LoopGetRaises
    \/ StopStatus
    \/ StopNoNew
    \/ NextPage

Spec == Init /\ [][Next]_vars

\* The program is one thread that keeps running until it returns or raises.
FairSpec == Spec /\ WF_vars(Next)

\* ------------------------------------ parse_listing_links on its own
InitParse ==
    /\ ScraperInit
    /\ html \in Htmls
    /\ links = <<>>
    /\ parsed = FALSE

CallParse ==
    /\ ~parsed
    /\ links' = parse_listing_links(html)
    /\ parsed' = TRUE
    /\ UNCHANGED html
    /\ UNCHANGED scraperVars

NextParse == CallParse

SpecParse == InitParse /\ [][NextParse]_vars

\* ------------------------------------------------------------ properties
\* an HTTP status of the successful class (2xx)
IsSuccess(s) == 200 <= s /\ s < 300

\* the smallest k with k * PageSize >= t
CeilDiv(t) == CHOOSE k \in 0..(t + 1) : k * PageSize >= t /\ (k - 1) * PageSize < t

Last(s) == s[Len(s)]

\* a response for the loop's page has just arrived
Fetched == pc = "loop" /\ Len(hist') = Len(hist) + 1 /\ Last(hist').status # ConnErr

\* the call has returned or raised: nothing happens afterwards
Terminal == (pc \in {"done", "failed"}) => UNCHANGED vars

\* the pages whose links the controller takes in: page 1 when it did not
\* raise, and each later page answered with status 200
Processed(n) ==
    IF n = 1 THEN hist[1].status # ConnErr /\ ~(400 <= hist[1].status /\ hist[1].status < 600)
    ELSE hist[n].status = 200

RECURSIVE Cat(_)
Cat(n) ==
    IF n = 0 THEN <<>>
    ELSE Cat(n - 1) \o (IF Processed(n) THEN hist[n].links ELSE <<>>)

\* C1: when a page n >= 2 answered with a success status yields no link that
\* is not already accumulated, the call returns the collection as it was
\* before page n, and page n + 1 is never requested.
C1_StopOnNoNewLinks ==
    [][ /\ (Fetched /\ IsSuccess(Last(hist').status)
              /\ Range(Last(hist').links) \subseteq Range(all_links))
           => /\ pc' = "done"
              /\ result' = all_links
              /\ all_links' = all_links
              /\ requested' = 1..page
        /\ Terminal ]_vars

C1_Witness ==
    /\ pc = "done" /\ stop = "no_new" /\ page = 3
    /\ hist[3].links # <<>>
    /\ Len(hist[1].links) > 0 /\ Len(result) > Len(hist[1].links)
    /\ requested = {1, 2, 3}

\* C2: when a total count T is found on page 1, the expected page count is
\* ceiling(T / 25) and no page of the loop (n >= 2) beyond it is requested.
C2_PageCountBound ==
    (pc \in {"loop", "done"} /\ total_ads # None) =>
        /\ num_pages = CeilDiv(total_ads)
        /\ \A n \in requested : n >= 2 => n <= CeilDiv(total_ads)

\* C3 as stated: page 1 raising or answering with any non-success status
\* fails the call, nothing is returned, and no page >= 2 is requested.
C3_AnyNonSuccessFails ==
    (Len(hist) >= 1 /\ (hist[1].status = ConnErr \/ ~IsSuccess(hist[1].status))) =>
        /\ pc = "failed"
        /\ result = <<>> /\ all_links = <<>>
        /\ requested = {1}

\* C3 amended: page 1 raising or answering with a 4xx or 5xx status fails
\* the call, nothing is returned, and no page >= 2 is requested.
C3_ErrorStatusFails ==
    (Len(hist) >= 1 /\ (hist[1].status = ConnErr \/ hist[1].status \in 400..599)) =>
        /\ pc = "failed"
        /\ result = <<>> /\ all_links = <<>>
        /\ requested = {1}

C3_Witness ==
    pc = "failed" /\ Len(hist) = 1 /\ hist[1].status = 404 /\ hist[1].links # <<>>

\* C4: a page n >= 2 answered with a non-success status does not fail the
\* call: it returns the links accumulated from pages 1..n-1, the body of
\* page n adds nothing, and no further page is requested.
C4_SilentStopOnStatus ==
    [][ /\ (Fetched /\ ~IsSuccess(Last(hist').status))
           => /\ pc' = "done"
              /\ result' = all_links
              /\ all_links' = all_links
              /\ requested' = 1..page
        /\ Terminal ]_vars

C4_Witness ==
    /\ pc = "done" /\ stop = "status" /\ page = 3
    /\ ~IsSuccess(hist[3].status)
    /\ \E u \in Range(hist[3].links) : u \notin Range(result)
    /\ result = hist[1].links \o NewLinks(hist[2].links, hist[1].links)

\* C5: the accumulated collection, and the returned list, never hold the
\* same URL twice.
C5_NoDuplicates == NoDup(all_links) /\ NoDup(result)

C5_Witness ==
    /\ Len(hist) >= 2 /\ hist[2].status = 200
    /\ Range(hist[2].links) \cap Range(hist[1].links) # {}
    /\ Len(all_links) > Len(hist[1].links)

\* C6: the call always ends (returns or raises); an iteration that does not
\* stop advances the page counter by one and takes in a URL not seen before,
\* and with a count hint the counter never passes the expected count + 1.
C6_Terminates ==
    /\ <>(pc \in {"done", "failed"})
    /\ [][(pc = "loop" /\ pc' = "loop") =>
             /\ page' = page + 1
             /\ Cardinality(Range(all_links')) > Cardinality(Range(all_links))
             /\ (Truthy(num_pages) => page' <= num_pages + 1)]_vars

C6_Witness ==
    pc = "done" /\ total_ads = None /\ stop = "no_new" /\ page = 4
    /\ Len(all_links) = 3

\* C7: the collection only grows at its end, and x precedes y in it exactly
\* when x is first seen before y in the concatenation of the processed pages.
C7_FirstSeenOrder ==
    /\ [](\A i, j \in 1..Len(all_links) :
             /\ all_links[i] \in Range(Cat(Len(hist)))
             /\ (i < j) <=> (FirstIdx(Cat(Len(hist)), all_links[i])
                               < FirstIdx(Cat(Len(hist)), all_links[j])))
    /\ [][IsPrefix(all_links, all_links')]_vars
    /\ [](pc = "done" => result = all_links)

C7_Witness ==
    /\ pc = "done" /\ Len(hist) >= 3 /\ hist[2].status = 200
    /\ Len(hist[1].links) = 2 /\ Len(hist[2].links) = 2
    /\ hist[2].links[1] = hist[1].links[2]
    /\ result = hist[1].links \o <<hist[2].links[2]>>

\* the resolved URLs of the qualifying anchors, in document order
ResolvedAnchors(h) ==
    LET q == SelectSeq(h, Qualifies)
    IN  [i \in 1..Len(q) |-> Resolve(q[i].href)]

\* C8: parse_listing_links returns the resolved URLs of the qualifying
\* anchors, each once, in the order of their first occurrences.
C8_FirstOccurrenceDedup ==
    parsed =>
        /\ NoDup(links)
        /\ Range(links) = Range(ResolvedAnchors(html))
        /\ \A i, j \in 1..Len(links) :
              i < j => FirstIdx(ResolvedAnchors(html), links[i])
                         < FirstIdx(ResolvedAnchors(html), links[j])

C8_Witness ==
    /\ parsed
    /\ html = <<[has |-> TRUE, href |-> A_rel], [has |-> TRUE, href |-> B_rel],
                [has |-> TRUE, href |-> A_abs], [has |-> TRUE, href |-> C_rel]>>
    /\ links = <<A_abs, <<ORIGIN>> \o B_rel, <<ORIGIN>> \o C_rel>>

\* C9: every URL parse_listing_links returns contains /s-anzeige/.
C9_MarkerInEveryResult ==
    parsed => \A i \in 1..Len(links) : Contains(links[i], MARKER)

\* C10 as stated: the returned links are exactly the links of the pages
\* answered with a success status.
C10_UnionOfSuccessPages ==
    pc = "done" =>
        Range(result) = UNION {Range(hist[n].links) :
                                 n \in {m \in 1..Len(hist) : IsSuccess(hist[m].status)}}

\* C10 amended: the returned links are exactly the links of page 1 and of
\* the later pages answered with status 200.
C10_UnionOfProcessedPages ==
    pc = "done" =>
        Range(result) = UNION {Range(hist[n].links) :
                                 n \in {m \in 1..Len(hist) : Processed(m)}}

C10_Witness ==
    /\ pc = "done" /\ stop = "status" /\ Len(hist) = 3
    /\ hist[3].status = 203
    /\ \E u \in Range(hist[3].links) : u \notin Range(result)
    /\ Cardinality(Range(result)) = 2

====
